---- MODULE Spec2Model ----
(***************************************************************************)
(* A model of midi_classifier.ipynb: label vocabulary, feature extraction  *)
(* (get_features / extract_midi_features), the Step 5 partition cell,      *)
(* model selection (train_model) and single-file prediction                *)
(* (make_prediction).                                                      *)
(*                                                                         *)
(* Python values are modelled as follows.                                  *)
(*   - a list or a 1-D array is a sequence; Python's 0-based index k is    *)
(*     position k + 1 of the sequence;                                     *)
(*   - a 2-D numpy array is a record [shape, rows];                        *)
(*   - a real number produced by a division is the exact fraction          *)
(*     <<numerator, denominator>>;                                         *)
(*   - a call that can raise is a record [exc, val]: exc names the         *)
(*     exception that leaves the call, NoExc when it returns val.          *)
(* The classifiers' fit and predict are library code: what predict returns *)
(* is a nondeterministic choice among the outputs of the right shape.      *)
(***************************************************************************)
EXTENDS Integers, Sequences, FiniteSets, TLC

VARIABLES
    stage,            \* which cell of the notebook a specification runs
    genre_df,         \* Step 2: the Genre column of the label table
    label_list,       \* Step 2: list(set(genre_df.Genre))
    label_dict,       \* Step 2: the index of each genre of label_list
    vocab_status,     \* Step 2: idle, or built once label_list and label_dict are bound
    t_features,       \* calculate_accuracy: the test features
    t_labels,         \* calculate_accuracy: the test labels
    acc_predictions,  \* calculate_accuracy: predictions
    acc_count,        \* calculate_accuracy: count
    test_accuracy,    \* calculate_accuracy: the value returned
    acc_status,       \* calculate_accuracy: idle, returned, or the exception raised
    path_df,          \* extract_midi_features: the rows (Path, Genre)
    row_idx,          \* extract_midi_features: position of the iterrows loop
    features,         \* the value of the last get_features call
    all_features,     \* extract_midi_features: the list being built
    labeled_features, \* the design matrix
    build_status,     \* extract_midi_features: running, returned, or the exception raised
    training_data,    \* Step 5
    validation_data,  \* Step 5
    test_data,        \* Step 5
    num_training,     \* Step 5
    num_validation,   \* Step 5
    split,            \* Step 5: the features and the labels of the three slices
    part_status,      \* Step 5: idle, done, or the exception raised
    v_labels,         \* train_model: the validation labels
    v_labels_hot,     \* train_model: one_hot(v_labels) of the current iteration
    ci,               \* train_model: position in the list of classifiers
    predictions,      \* train_model: clf.predict(v_features) of the last classifier
    count,            \* train_model: count after the scoring loop
    accs,             \* train_model: the accuracy computed for each classifier so far
    best_clf,         \* train_model
    best_accuracy,    \* train_model
    train_status,     \* train_model: running, returned, or the exception raised
    classifier,       \* Step 6: the value train_model returned
    midi_path,        \* make_prediction: its argument
    pred_out,         \* make_prediction: clf.predict([features])[0]
    prediction,       \* make_prediction: the value returned
    pred_status       \* make_prediction: idle, returned, or the exception raised

buildVars == <<path_df, row_idx, features, all_features, build_status>>
partVars == <<training_data, validation_data, test_data, num_training,
              num_validation, split, part_status>>
trainVars == <<v_labels, v_labels_hot, ci, predictions, count, accs, best_clf, best_accuracy,
               train_status, classifier>>
predVars == <<midi_path, pred_out, prediction, pred_status>>
vocabVars == <<genre_df, label_dict, vocab_status>>
accVars == <<t_features, t_labels, acc_predictions, acc_count, test_accuracy, acc_status>>
vars == <<stage, label_list, labeled_features, buildVars, partVars, trainVars, predVars,
          vocabVars, accVars>>

----------------------------------------------------------------------------
(* Bounds of the model *)

\* longest label table
MaxTable == 4
\* longest path_df given to extract_midi_features
MaxRows == 3
\* largest design matrix given to the partition cell
MaxN == 5
\* largest validation set given to train_model, largest test set given to
\* calculate_accuracy
MaxVal == 2

----------------------------------------------------------------------------
(* Python values *)

\* None, in a place that otherwise holds a list
None == <<>>
\* None, in a place that otherwise holds a classifier
NoClf == "None"
\* no exception leaves the call
NoExc == "none"

Range(s) == {s[i] : i \in 1..Len(s)}

SeqsUpTo(S, n) == UNION {[1..k -> S] : k \in 0..n}

RECURSIVE Pow2(_)
Pow2(k) == IF k = 0 THEN 1 ELSE 2 * Pow2(k - 1)

\* int.bit_length()
RECURSIVE BitLen(_)
BitLen(n) == IF n = 0 THEN 0 ELSE 1 + BitLen(n \div 2)

\* list.index(v): the 0-based position of the first element equal to v; the
\* call raises ValueError when there is none.
RECURSIVE IndexFrom(_, _, _)
IndexFrom(list, v, i) ==
    IF i > Len(list) THEN [exc |-> "ValueError", val |-> -1]
    ELSE IF list[i] = v THEN [exc |-> NoExc, val |-> i - 1]
    ELSE IndexFrom(list, v, i + 1)

ListIndex(list, v) == IndexFrom(list, v, 1)

\* np.array(list of rows): an empty list gives a 1-D array of shape (0,)
NpArray(rows) ==
    [shape |-> IF Len(rows) = 0 THEN <<0>> ELSE <<Len(rows), Len(rows[1])>>,
     rows |-> rows]

----------------------------------------------------------------------------
(* Step 2: the label vocabulary *)

\* the distinct genres of the label table
Genres == {"Jazz", "Pop_Rock"}

\* a genre no line of the label table has
ForeignGenre == "Rap"

\* list(set(genre_df.Genre)): the distinct genres, in an order the set decides
LabelLists == {s \in [1..Cardinality(Genres) -> Genres] :
                  \A i, j \in 1..Cardinality(Genres) : s[i] = s[j] => i = j}

\* label_dict = {lbl: label_list.index(lbl) for lbl in label_list}
LabelDict(list) == [lbl \in Range(list) |-> ListIndex(list, lbl).val]

\* the genres a line of a label table may have
GenreNames == {"Jazz", "Pop_Rock", "Blues"}

\* set(column): the distinct values of the column
PySet(column) == Range(column)

\* list(S) of a set: its elements, each once, in an order the set decides
ListsOfSet(S) == {s \in [1..Cardinality(S) -> S] :
                    \A i, j \in 1..Cardinality(S) : s[i] = s[j] => i = j}

\* GenreLists with list(genre_df.Genre): the column itself, repetitions kept
GenreListsNoSet(column) == {column}

\* the values list(set(genre_df.Genre)) may have
GenreLists(column) == ListsOfSet(PySet(column))

\* The Step 2 cell after get_genres: bind label_list and label_dict.
BuildVocabulary ==
    /\ stage = "vocab"
    /\ vocab_status = "idle"
    /\ \E list \in GenreLists(genre_df) :
         /\ label_list' = list
         /\ label_dict' = LabelDict(list)
    /\ vocab_status' = "built"
    /\ UNCHANGED <<stage, genre_df, labeled_features, buildVars, partVars, trainVars,
                   predVars, accVars>>

\* The state Step 2 leaves for a label table with one line per genre of
\* label_list, in that order.
VocabBuilt ==
    /\ genre_df = label_list
    /\ label_dict = LabelDict(label_list)
    /\ vocab_status = "built"

\* num_classes = len(label_list)
NumClasses(list) == Len(list)

----------------------------------------------------------------------------
(* Step 4: feature extraction *)

\* What pretty_midi does with each file of the corpus: PrettyMIDI(path) loads
\* it, raises, or warns; estimate_tempo() returns or raises.
Codec ==
    [p \in {"waltz.mid", "plain.mid", "truncated.mid", "odd_track.mid", "one_note.mid"} |->
        CASE p = "waltz.mid" ->
                [load |-> "ok", tempo_raises |-> FALSE, tempo |-> 120, resolution |-> 480,
                 time_signature_changes |-> <<[numerator |-> 3, denominator |-> 4]>>]
          [] p = "plain.mid" ->
                [load |-> "ok", tempo_raises |-> FALSE, tempo |-> 90, resolution |-> 220,
                 time_signature_changes |-> <<>>]
          [] p = "truncated.mid" ->
                [load |-> "raise", tempo_raises |-> FALSE, tempo |-> 0, resolution |-> 0,
                 time_signature_changes |-> <<>>]
          [] p = "odd_track.mid" ->
                [load |-> "warn", tempo_raises |-> FALSE, tempo |-> 100, resolution |-> 96,
                 time_signature_changes |-> <<[numerator |-> 6, denominator |-> 8]>>]
          [] p = "one_note.mid" ->
                [load |-> "ok", tempo_raises |-> TRUE, tempo |-> 0, resolution |-> 384,
                 time_signature_changes |-> <<>>]]

Paths == DOMAIN Codec

\* normalize_features: five raw features in, four normalized features out
normalize_features(f) ==
    LET tempo == <<f[1] - 150, 300>>
        num_sig_changes == <<f[2] - 2, 10>>
        resolution == <<f[3] - 260, 400>>
        time_sig_1 == <<f[4] - 3, 8>>
        time_sig_2 == <<f[5] - 3, 8>>
    IN  <<tempo, resolution, time_sig_1, time_sig_2>>

\* warnings.simplefilter("error"): a warning issued inside the block is raised
\* as an exception at the place that issues it.
SimpleFilterError(load) == IF load = "warn" THEN "raise_warning" ELSE load

\* The body of the try block of get_features.
GetFeaturesBody(path) ==
    LET file == Codec[path]
        load == SimpleFilterError(file.load)
        ts_changes == file.time_signature_changes
        ts_1 == IF Len(ts_changes) > 0 THEN ts_changes[1].numerator ELSE 4
        ts_2 == IF Len(ts_changes) > 0 THEN ts_changes[1].denominator ELSE 4
    IN  IF load = "raise" THEN [exc |-> "IOError", val |-> None]
        ELSE IF load = "raise_warning" THEN [exc |-> "RuntimeWarning", val |-> None]
        ELSE IF file.tempo_raises THEN [exc |-> "ValueError", val |-> None]
        ELSE [exc |-> NoExc,
              val |-> normalize_features(<<file.tempo, Len(ts_changes), file.resolution,
                                           ts_1, ts_2>>)]

\* ExceptAll as "except IOError:": any other exception leaves get_features
ExceptIOError(r) == IF r.exc = "IOError" THEN [exc |-> NoExc, val |-> None] ELSE r

\* ExceptAll returning the features of a default file in place of None
ExceptDefault(r) ==
    IF r.exc # NoExc THEN [exc |-> NoExc, val |-> normalize_features(<<120, 0, 220, 4, 4>>)]
    ELSE r

\* The handler of get_features: a bare except, which catches every exception.
ExceptAll(r) == IF r.exc # NoExc THEN [exc |-> NoExc, val |-> None] ELSE r

\* get_features(path)
GetFeatures(path) == ExceptAll(GetFeaturesBody(path))

\* AppendRow without the test for None: a failed row leaves a row of its own
AppendRowAlways(all, feats, genre) == Append(all, Append(feats, <<genre, 1>>))

\* if features is not None: features.append(genre); all_features.append(features)
\* (np.array makes the class index a float like the features)
AppendRow(all, feats, genre) ==
    IF feats # None THEN Append(all, Append(feats, <<genre, 1>>)) ELSE all

\* the rows extract_midi_features may be given
PathRows == [Path : Paths, Genre : Genres \cup {ForeignGenre}]

BuildIdle ==
    /\ path_df = <<>>
    /\ row_idx = 0
    /\ features = None
    /\ all_features = <<>>
    /\ build_status = "idle"

\* One iteration of the loop of extract_midi_features.
ExtractRow ==
    /\ stage = "build"
    /\ build_status = "running"
    /\ row_idx <= Len(path_df)
    /\ LET row == path_df[row_idx]
           got == GetFeatures(row.Path)
       IN  IF got.exc # NoExc
           THEN /\ build_status' = got.exc
                /\ UNCHANGED <<features, all_features, row_idx>>
           ELSE /\ features' = got.val
                /\ IF row.Genre \notin DOMAIN label_dict
                   THEN /\ build_status' = "KeyError"
                        /\ UNCHANGED <<all_features, row_idx>>
                   ELSE /\ all_features' = AppendRow(all_features, got.val, label_dict[row.Genre])
                        /\ row_idx' = row_idx + 1
                        /\ UNCHANGED build_status
    /\ UNCHANGED <<stage, label_list, path_df, labeled_features, partVars, trainVars, predVars, vocabVars, accVars>>

\* The end of extract_midi_features: return np.array(all_features).
ExtractReturn ==
    /\ stage = "build"
    /\ build_status = "running"
    /\ row_idx > Len(path_df)
    /\ labeled_features' = NpArray(all_features)
    /\ build_status' = "returned"
    /\ UNCHANGED <<stage, label_list, path_df, row_idx, features, all_features,
                   partVars, trainVars, predVars, vocabVars, accVars>>

----------------------------------------------------------------------------
(* Step 5: the partition cell *)

\* A Python float literal in [0.5, 1) is mantissa * 2^-53 with a 53-bit mantissa,
\* held here in three limbs of 18 bits, least significant first:
\* 0.6 is 0x1.3333333333333p-1 = 5404319552844595 * 2^-53,
\* 0.8 is 0x1.999999999999ap-1 = 7205759403792794 * 2^-53.
Limb == Pow2(18)
Float06 == <<209715, 52428, 78643>>
Float08 == <<104858, 157286, 104857>>

\* int(num * f) for an int num >= 0 and a float f in [0.5, 1): the exact product
\* num * mantissa, rounded to 53 significant bits (round half to even) as the
\* float multiplication does, then truncated to an integer as int() does.
IntOfProduct(num, f) ==
    LET q0 == num * f[1]
        q1 == num * f[2] + (q0 \div Limb)
        p0 == q0 % Limb
        p1 == q1 % Limb
        p2 == num * f[3] + (q1 \div Limb)
        \* bits of the product beyond 53: they all lie in p0
        s == BitLen(p2) - 17
        unit == Pow2(s)
        r == p0 % unit
        kept == p0 \div unit
        up == /\ s > 0
              /\ \/ 2 * r > unit
                 \/ 2 * r = unit /\ kept % 2 = 1
        r0 == p0 - r + (IF up THEN unit ELSE 0)
        r1 == p1 + (r0 \div Limb)
        r2 == p2 + (r1 \div Limb)
    IN  IF num = 0 THEN 0 ELSE r2 \div Pow2(17)

\* num_training = int(num * 0.6), for each num the model reaches
NumTraining == [num \in 0..MaxN |-> IntOfProduct(num, Float06)]

\* num_validation = int(num * 0.8), for each num the model reaches
NumValidation == [num \in 0..MaxN |-> IntOfProduct(num, Float08)]

\* Slice with the upper end taken inclusively: a[lo:hi + 1]
SliceInclusive(a, lo, hi) ==
    LET n == Len(a.rows)
        l == IF lo > n THEN n ELSE lo
        h == IF hi + 1 > n THEN n ELSE hi + 1
        rows == IF h > l THEN SubSeq(a.rows, l + 1, h) ELSE <<>>
    IN  [shape |-> [a.shape EXCEPT ![1] = Len(rows)], rows |-> rows]

\* a[lo:hi] on the first axis of an array
Slice(a, lo, hi) ==
    LET n == Len(a.rows)
        l == IF lo > n THEN n ELSE lo
        h == IF hi > n THEN n ELSE hi
        rows == IF h > l THEN SubSeq(a.rows, l + 1, h) ELSE <<>>
    IN  [shape |-> [a.shape EXCEPT ![1] = Len(rows)], rows |-> rows]

\* a.shape[k]: IndexError when the array has no axis k
ShapeAt(a, k) ==
    IF k + 1 > Len(a.shape) THEN [exc |-> "IndexError", val |-> -1]
    ELSE [exc |-> NoExc, val |-> a.shape[k + 1]]

\* the orders np.random.permutation may give n rows
Orders(n) == Permutations(1..n)

\* np.random.permutation(a) with the order p
Permute(a, p) == [shape |-> a.shape, rows |-> [i \in 1..Len(a.rows) |-> a.rows[p[i]]]]

\* a[:, :k]
Columns(a, k) == [i \in 1..Len(a.rows) |-> SubSeq(a.rows[i], 1, k)]

\* float to int, as astype(int) does: truncation
AsInt(x) == x[1] \div x[2]

\* a[:, k].astype(int)
LabelColumn(a, k) == [i \in 1..Len(a.rows) |-> AsInt(a.rows[i][k + 1])]

EmptyArray == [shape |-> <<0>>, rows |-> <<>>]

\* the names the cell has not bound
NoSplit == [training_features |-> <<>>, validation_features |-> <<>>,
            test_features |-> <<>>, training_labels |-> <<>>,
            validation_labels |-> <<>>, test_labels |-> <<>>]

\* Separate Features from Labels
Separate(tr, va, te, num_cols) ==
    [training_features |-> Columns(tr, num_cols),
     validation_features |-> Columns(va, num_cols),
     test_features |-> Columns(te, num_cols),
     training_labels |-> LabelColumn(tr, num_cols),
     validation_labels |-> LabelColumn(va, num_cols),
     test_labels |-> LabelColumn(te, num_cols)]

PartIdle ==
    /\ training_data = EmptyArray
    /\ validation_data = EmptyArray
    /\ test_data = EmptyArray
    /\ num_training = 0
    /\ num_validation = 0
    /\ split = NoSplit
    /\ part_status = "idle"

\* The rows of a design matrix: four features and the class index, all floats.
LabeledRow(path, k) == Append(GetFeatures(path).val, <<k, 1>>)

MatrixRows == {LabeledRow("waltz.mid", 0), LabeledRow("plain.mid", 0),
               LabeledRow("plain.mid", 1)}

\* The Step 5 cell: shuffle, partition, separate the features from the labels.
PartitionCell ==
    /\ stage = "partition"
    /\ part_status = "idle"
    /\ \E p \in Orders(Len(labeled_features.rows)) :
       \E shuffled \in {Permute(labeled_features, p)} :
       \E n_tr \in {NumTraining[Len(shuffled.rows)]} :
       \E n_va \in {NumValidation[Len(shuffled.rows)]} :
       \E tr \in {Slice(shuffled, 0, n_tr)} :
       \E va \in {Slice(shuffled, n_tr, n_va)} :
       \E te \in {Slice(shuffled, n_va, Len(shuffled.rows))} :
         LET shape_1 == ShapeAt(tr, 1)
         IN  /\ labeled_features' = shuffled
             /\ num_training' = n_tr
             /\ num_validation' = n_va
             /\ training_data' = tr
             /\ validation_data' = va
             /\ test_data' = te
             /\ IF shape_1.exc # NoExc
                THEN /\ part_status' = shape_1.exc
                     /\ UNCHANGED split
                ELSE /\ split' = Separate(tr, va, te, shape_1.val - 1)
                     /\ part_status' = "done"
    /\ UNCHANGED <<stage, label_list, buildVars, trainVars, predVars, vocabVars, accVars>>

----------------------------------------------------------------------------
(* Step 5: one-hot encoding *)

\* np.eye(n): the identity matrix, of floats
Eye(n) == [r \in 1..n |-> [c \in 1..n |-> IF r = c THEN <<1, 1>> ELSE <<0, 1>>]]

\* one_hot with the rows of the identity taken from the other end
one_hotReversed(labels, num_classes) ==
    [i \in 1..Len(labels) |->
        [c \in 1..num_classes |-> AsInt(Eye(num_classes)[num_classes - labels[i]][c])]]

\* one_hot(labels) = np.eye(num_classes)[labels].astype(int)
one_hot(labels, num_classes) ==
    [i \in 1..Len(labels) |->
        [c \in 1..num_classes |-> AsInt(Eye(num_classes)[labels[i] + 1][c])]]

----------------------------------------------------------------------------
(* Step 6: train_model *)

\* for clf in [clf_1, clf_2, clf_3, clf_4, clf_svm]
Candidates == <<"clf_1", "clf_2", "clf_3", "clf_4", "clf_svm">>

\* type(clf) == SVC
IsSVC(clf) == clf = "clf_svm"

\* What clf.predict may return for n rows: an MLPClassifier fitted on one-hot
\* labels gives one 0/1 vector per row, an SVC one class index per row.
PredictOutputs(clf, n, num_classes) ==
    IF IsSVC(clf) THEN [1..n -> 0..(num_classes - 1)]
    ELSE [1..n -> [1..num_classes -> {0, 1}]]

\* clf.predict on n rows of features. On no row at all the classifiers either
\* refuse the input (ValueError from the input validation) or give an empty
\* output, depending on the library at hand.
PredictRows(clf, n, num_classes) ==
    IF n = 0 THEN {[exc |-> "ValueError", val |-> None], [exc |-> NoExc, val |-> <<>>]}
    ELSE {[exc |-> NoExc, val |-> o] : o \in PredictOutputs(clf, n, num_classes)}

\* np.array_equal(a, b) for 1-D arrays
ArrayEqual(a, b) == Len(a) = Len(b) /\ \A i \in 1..Len(a) : a[i] = b[i]

\* Correct with top-1 agreement in place of np.array_equal
CorrectByArgMax(clf, labels, labels_hot, preds, i) ==
    IF ~IsSVC(clf)
    THEN \E k \in 1..Len(preds[i]) :
            /\ labels_hot[i][k] = 1
            /\ \A c \in 1..Len(preds[i]) : preds[i][c] <= preds[i][k]
            /\ \A c \in 1..(k - 1) : preds[i][c] < preds[i][k]
    ELSE labels[i] = preds[i]

\* Whether the scoring loop counts example i.
Correct(clf, labels, labels_hot, preds, i) ==
    IF ~IsSVC(clf) THEN ArrayEqual(labels_hot[i], preds[i])
    ELSE labels[i] = preds[i]

\* for i in range(len(v_labels)): ... count += 1
RECURSIVE ScoreLoop(_, _, _, _, _, _)
ScoreLoop(clf, labels, labels_hot, preds, i, cnt) ==
    IF i > Len(labels) THEN cnt
    ELSE ScoreLoop(clf, labels, labels_hot, preds, i + 1,
                   IF Correct(clf, labels, labels_hot, preds, i) THEN cnt + 1 ELSE cnt)

\* Divide with 0 for the quotient by zero
DivideOrZero(a, b) ==
    IF b = 0 THEN [exc |-> NoExc, val |-> <<0, 1>>]
    ELSE [exc |-> NoExc, val |-> <<a, b>>]

\* a / b for ints
Divide(a, b) ==
    IF b = 0 THEN [exc |-> "ZeroDivisionError", val |-> <<0, 1>>]
    ELSE [exc |-> NoExc, val |-> <<a, b>>]

\* x > y for fractions with positive denominators
Greater(x, y) == x[1] * y[2] > y[1] * x[2]

\* if accuracy > best_accuracy
Improves(accuracy, best) == Greater(accuracy, best)

TrainIdle ==
    /\ v_labels = <<>>
    /\ v_labels_hot = <<>>
    /\ ci = 0
    /\ predictions = <<>>
    /\ count = 0
    /\ accs = <<>>
    /\ best_clf = NoClf
    /\ best_accuracy = <<0, 1>>
    /\ train_status = "idle"
    /\ classifier = NoClf

\* One iteration of the loop of train_model over the classifiers: fit, predict,
\* score, compare with the best so far.
TrainStep ==
    /\ stage = "train"
    /\ train_status = "running"
    /\ ci <= Len(Candidates)
    /\ \E labels_hot \in {one_hot(v_labels, NumClasses(label_list))} :
       \E clf \in {Candidates[ci]} :
       \E out \in PredictRows(clf, Len(v_labels), NumClasses(label_list)) :
         /\ v_labels_hot' = labels_hot
         /\ IF out.exc # NoExc
            THEN /\ train_status' = out.exc
                 /\ UNCHANGED <<predictions, count, ci, accs, best_clf, best_accuracy>>
            ELSE \E cnt \in {ScoreLoop(clf, v_labels, labels_hot, out.val, 1, 0)} :
                 LET accuracy == Divide(cnt, Len(labels_hot))
                 IN  /\ predictions' = out.val
                     /\ count' = cnt
                     /\ IF accuracy.exc # NoExc
                        THEN /\ train_status' = accuracy.exc
                             /\ UNCHANGED <<ci, accs, best_clf, best_accuracy>>
                        ELSE /\ accs' = Append(accs, accuracy.val)
                             /\ IF Improves(accuracy.val, best_accuracy)
                                THEN /\ best_accuracy' = accuracy.val
                                     /\ best_clf' = clf
                                ELSE UNCHANGED <<best_clf, best_accuracy>>
                             /\ ci' = ci + 1
                             /\ UNCHANGED train_status
    /\ UNCHANGED <<stage, label_list, labeled_features, v_labels, classifier,
                   buildVars, partVars, predVars, vocabVars, accVars>>

\* The end of train_model, and the assignment of its value to classifier.
TrainReturn ==
    /\ stage = "train"
    /\ train_status = "running"
    /\ ci > Len(Candidates)
    /\ classifier' = best_clf
    /\ train_status' = "returned"
    /\ UNCHANGED <<stage, label_list, labeled_features, v_labels, v_labels_hot, ci,
                   predictions, count,
                   accs, best_clf, best_accuracy, buildVars, partVars, predVars, vocabVars, accVars>>

----------------------------------------------------------------------------
(* Step 8: make_prediction *)

\* no genre: make_prediction has not returned
NoGenre == "None"

\* clf.predict(X): None has no predict; the classifiers validate X and raise
\* ValueError on a row that is None; otherwise any output of the right shape.
ClfPredict(clf, X, num_classes) ==
    IF clf = NoClf THEN {[exc |-> "AttributeError", val |-> None]}
    ELSE IF \E i \in 1..Len(X) : X[i] = None THEN {[exc |-> "ValueError", val |-> None]}
    ELSE PredictRows(clf, Len(X), num_classes)

\* list(x) for x one element of the output of clf: a vector is iterable, a class
\* index is not.
ToList(clf, x) ==
    IF IsSVC(clf) THEN [exc |-> "TypeError", val |-> None]
    ELSE [exc |-> NoExc, val |-> x]

\* list(out[0]).index(1)
PredictionInd(clf, first) ==
    LET lst == ToList(clf, first)
    IN  IF lst.exc # NoExc THEN [exc |-> lst.exc, val |-> -1]
        ELSE ListIndex(lst.val, 1)

\* GenreOf with label_list[k - 1]
GenreOfPrevious(list, k) == list[IF k = 0 THEN Len(list) ELSE k]

\* label_list[k]
GenreOf(list, k) == list[k + 1]

\* make_prediction after clf.predict([features]) has returned out
Decode(clf, out, list) ==
    LET ind == PredictionInd(clf, out[1])
    IN  IF ind.exc # NoExc THEN [exc |-> ind.exc, val |-> NoGenre]
        ELSE [exc |-> NoExc, val |-> GenreOf(list, ind.val)]

----------------------------------------------------------------------------
(* Step 7: calculate_accuracy *)

\* the feature vectors a test set may hold
FeatureVectors == {v \in {GetFeatures(p).val : p \in Paths} : v # None}

\* AccCorrect with a prediction counted as soon as it has a 1 where the label has
AccCorrectAnyHit(clf, labels, labels_hot, preds, i) ==
    IF IsSVC(clf) THEN labels[i] = preds[i]
    ELSE \A k \in 1..Len(labels_hot[i]) : labels_hot[i][k] = 1 => preds[i][k] = 1

\* Whether the loop of calculate_accuracy counts example i.
AccCorrect(clf, labels, labels_hot, preds, i) ==
    IF IsSVC(clf) THEN labels[i] = preds[i]
    ELSE ArrayEqual(labels_hot[i], preds[i])

\* for i in range(len(t_features)): ... count += 1
RECURSIVE AccLoop(_, _, _, _, _, _, _)
AccLoop(clf, feats, labels, labels_hot, preds, i, cnt) ==
    IF i > Len(feats) THEN [exc |-> NoExc, val |-> cnt]
    ELSE IF i > Len(labels) THEN [exc |-> "IndexError", val |-> cnt]
    ELSE AccLoop(clf, feats, labels, labels_hot, preds, i + 1,
                 IF AccCorrect(clf, labels, labels_hot, preds, i) THEN cnt + 1 ELSE cnt)

AccIdle ==
    /\ t_features = <<>>
    /\ t_labels = <<>>
    /\ acc_predictions = <<>>
    /\ acc_count = 0
    /\ test_accuracy = None
    /\ acc_status = "idle"

\* calculate_accuracy(classifier, t_features, t_labels)
CalculateAccuracy ==
    /\ stage = "accuracy"
    /\ acc_status = "idle"
    /\ \E out \in ClfPredict(classifier, t_features, NumClasses(label_list)) :
         IF out.exc # NoExc
         THEN /\ acc_status' = out.exc
              /\ UNCHANGED <<acc_predictions, acc_count, test_accuracy>>
         ELSE \E t_labels_hot \in {one_hot(t_labels, NumClasses(label_list))} :
              \E loop \in {AccLoop(classifier, t_features, t_labels, t_labels_hot,
                                   out.val, 1, 0)} :
              LET result == Divide(loop.val, Len(t_features))
              IN  /\ acc_predictions' = out.val
                  /\ acc_count' = loop.val
                  /\ IF loop.exc # NoExc
                     THEN acc_status' = loop.exc /\ UNCHANGED test_accuracy
                     ELSE IF result.exc # NoExc
                     THEN acc_status' = result.exc /\ UNCHANGED test_accuracy
                     ELSE acc_status' = "returned" /\ test_accuracy' = result.val
    /\ UNCHANGED <<stage, label_list, labeled_features, t_features, t_labels,
                   buildVars, partVars, trainVars, predVars, vocabVars>>

PredIdle ==
    /\ midi_path = "none"
    /\ pred_out = None
    /\ prediction = NoGenre
    /\ pred_status = "idle"

\* make_prediction(classifier, path)
MakePrediction ==
    /\ stage = "train"
    /\ train_status = "returned"
    /\ pred_status = "idle"
    /\ \E path \in Paths :
         LET got == GetFeatures(path)
         IN  /\ midi_path' = path
             /\ IF got.exc # NoExc
                THEN /\ pred_status' = got.exc
                     /\ UNCHANGED <<features, pred_out, prediction>>
                ELSE /\ features' = got.val
                     /\ \E out \in ClfPredict(classifier, <<got.val>>, NumClasses(label_list)) :
                          IF out.exc # NoExc
                          THEN /\ pred_status' = out.exc
                               /\ UNCHANGED <<pred_out, prediction>>
                          ELSE LET res == Decode(classifier, out.val, label_list)
                               IN  /\ pred_out' = out.val[1]
                                   /\ prediction' = res.val
                                   /\ pred_status' =
                                        IF res.exc # NoExc THEN res.exc ELSE "returned"
    /\ UNCHANGED <<stage, label_list, labeled_features, path_df, row_idx, all_features,
                   build_status, partVars, trainVars, vocabVars, accVars>>

----------------------------------------------------------------------------
(* Specifications *)

\* Step 2 on any label table
InitVocab ==
    /\ stage = "vocab"
    /\ genre_df \in SeqsUpTo(GenreNames, MaxTable)
    /\ label_list = <<>>
    /\ label_dict = <<>>
    /\ vocab_status = "idle"
    /\ labeled_features = EmptyArray
    /\ BuildIdle /\ PartIdle /\ TrainIdle /\ PredIdle /\ AccIdle

NextVocab == BuildVocabulary

SpecVocab == InitVocab /\ [][NextVocab]_vars

\* Step 4 on any rows: extract_midi_features(path_df)
InitBuild ==
    /\ stage = "build"
    /\ label_list \in LabelLists
    /\ path_df \in SeqsUpTo(PathRows, MaxRows)
    /\ row_idx = 1
    /\ features = None
    /\ all_features = <<>>
    /\ build_status = "running"
    /\ labeled_features = EmptyArray
    /\ PartIdle /\ TrainIdle /\ PredIdle /\ AccIdle /\ VocabBuilt

NextBuild == ExtractRow \/ ExtractReturn

SpecBuild == InitBuild /\ [][NextBuild]_vars

\* Step 5 on any design matrix
InitPartition ==
    /\ stage = "partition"
    /\ label_list \in LabelLists
    /\ labeled_features \in {NpArray(rows) : rows \in SeqsUpTo(MatrixRows, MaxN)}
    /\ BuildIdle /\ PartIdle /\ TrainIdle /\ PredIdle /\ AccIdle /\ VocabBuilt

NextPartition == PartitionCell

SpecPartition == InitPartition /\ [][NextPartition]_vars

\* Steps 6 and 8 on any validation labels: train_model, then make_prediction
\* with the classifier it returned
Init ==
    /\ stage = "train"
    /\ label_list \in LabelLists
    /\ labeled_features = EmptyArray
    /\ BuildIdle /\ PartIdle /\ PredIdle /\ AccIdle /\ VocabBuilt
    /\ v_labels \in SeqsUpTo(0..(Cardinality(Genres) - 1), MaxVal)
    /\ v_labels_hot = <<>>
    /\ ci = 1
    /\ predictions = <<>>
    /\ count = 0
    /\ accs = <<>>
    /\ best_clf = NoClf
    /\ best_accuracy = <<0, 1>>
    /\ train_status = "running"
    /\ classifier = NoClf

Next == TrainStep \/ TrainReturn \/ MakePrediction

Spec == Init /\ [][Next]_vars

\* Step 7 on any classifier and any test set
InitAccuracy ==
    /\ stage = "accuracy"
    /\ label_list \in LabelLists
    /\ labeled_features = EmptyArray
    /\ BuildIdle /\ PartIdle /\ PredIdle /\ VocabBuilt
    /\ v_labels = <<>>
    /\ v_labels_hot = <<>>
    /\ ci = 0
    /\ predictions = <<>>
    /\ count = 0
    /\ accs = <<>>
    /\ best_clf = NoClf
    /\ best_accuracy = <<0, 1>>
    /\ train_status = "idle"
    /\ classifier \in Range(Candidates) \cup {NoClf}
    /\ t_features \in SeqsUpTo(FeatureVectors, MaxVal)
    /\ t_labels \in SeqsUpTo(0..(Cardinality(Genres) - 1), MaxVal)
    /\ acc_predictions = <<>>
    /\ acc_count = 0
    /\ test_accuracy = None
    /\ acc_status = "idle"

\* The two scorings: train_model on any validation labels, calculate_accuracy
\* on any classifier and any test set.
InitScoring == Init \/ InitAccuracy

NextScoring == TrainStep \/ TrainReturn \/ CalculateAccuracy

SpecScoring == InitScoring /\ [][NextScoring]_vars

----------------------------------------------------------------------------
(* Properties *)

\* the classifiers whose predict gives a 0/1 vector per row
DenseCandidates == {"clf_1", "clf_2", "clf_3", "clf_4"}

\* x = y for fractions
SameFraction(x, y) == x[1] * y[2] = y[1] * x[2]

\* the position of a classifier in the list of candidates
PositionOf(clf) == CHOOSE i \in 1..Len(Candidates) : Candidates[i] = clf

\* the positions of the candidates whose validation accuracy is the highest
BestPositions ==
    {i \in 1..Len(accs) : \A j \in 1..Len(accs) : ~Greater(accs[j], accs[i])}

\* the file decodes: the codec neither raises nor warns on it
Decodes(path) ==
    /\ Codec[path].load = "ok"
    /\ ~Codec[path].tempo_raises

\* v is a 0/1 vector over the classes whose only 1 is at 0-based position k
OneHotAt(v, k) ==
    /\ Len(v) = Len(label_list)
    /\ \A c \in 1..Len(v) : v[c] = (IF c = k + 1 THEN 1 ELSE 0)

\* C1: for a non-empty validation set, train_model returns one of the
\* candidates, its validation accuracy is the highest of all the candidates'
\* accuracies, and the best accuracy reported is that accuracy.
C1_ReturnsBestCandidate ==
    (train_status = "returned" /\ Len(v_labels) > 0) =>
        /\ classifier \in Range(Candidates)
        /\ PositionOf(classifier) \in BestPositions
        /\ SameFraction(best_accuracy, accs[PositionOf(classifier)])

\* C2: when candidates tie at the highest validation accuracy, train_model
\* returns the earliest of them in the order of the candidate list.
C2_TieKeepsEarliest ==
    (train_status = "returned" /\ Len(v_labels) > 0) =>
        /\ classifier \in Range(Candidates)
        /\ \A i \in BestPositions : PositionOf(classifier) <= i

\* the scoring rule as the specification states it
RuleCorrect(clf, pred, label) ==
    IF clf \in DenseCandidates
    THEN /\ Len(pred) = Len(label_list)
         /\ \A c \in 1..Len(label_list) : pred[c] = (IF c = label + 1 THEN 1 ELSE 0)
    ELSE pred = label

\* np.argmax of a vector: the 0-based position of its first largest element
ArgMax(v) == CHOOSE k \in 0..(Len(v) - 1) :
                /\ \A c \in 1..Len(v) : v[c] <= v[k + 1]
                /\ \A c \in 1..k : v[c] < v[k + 1]

\* C3: after a candidate is scored, count is the number of validation examples
\* that satisfy the rule of the candidate's shape: for a dense candidate the
\* predicted vector equals the one-hot vector of the true label in every
\* element, for the scalar candidate the predicted index equals the true index;
\* and the accuracy computed is count over the number of examples.
C3_CountFollowsShapeRule ==
    (stage = "train" /\ ci > 1) =>
        LET clf == Candidates[ci - 1]
        IN  /\ count = Cardinality({i \in 1..Len(v_labels) :
                                       RuleCorrect(clf, predictions[i], v_labels[i])})
            /\ accs[ci - 1] = <<count, Len(v_labels)>>

\* C3 witness: a dense candidate was scored on two examples, one predicted
\* exactly, the other with the right argmax but a second 1, counted wrong.
C3_Witness ==
    /\ stage = "train"
    /\ ci > 1
    /\ Candidates[ci - 1] \in DenseCandidates
    /\ Len(v_labels) = 2
    /\ count = 1
    /\ \E i \in 1..2 :
         /\ ArgMax(predictions[i]) = v_labels[i]
         /\ ~RuleCorrect(Candidates[ci - 1], predictions[i], v_labels[i])

\* C4: for every matrix size N >= 0 the partition cell completes without error,
\* with |train| = floor(0.6 N), |validation| = floor(0.8 N) - floor(0.6 N) and
\* |train| + |validation| + |test| = N.
C4_PartitionSizes ==
    (stage = "partition" /\ part_status # "idle") =>
        LET N == Len(labeled_features.rows)
            train == Len(training_data.rows)
            validation == Len(validation_data.rows)
            test == Len(test_data.rows)
        IN  /\ part_status = "done"
            /\ train = (6 * N) \div 10
            /\ validation = ((8 * N) \div 10) - ((6 * N) \div 10)
            /\ train + validation + test = N

\* the rows of path_df whose file decodes, in the order of path_df, each as the
\* row of the design matrix it gives
RECURSIVE SuccessRows(_, _)
SuccessRows(rows, list) ==
    IF rows = <<>> THEN <<>>
    ELSE LET row == Head(rows)
             rest == SuccessRows(Tail(rows), list)
         IN  IF Decodes(row.Path)
             THEN <<Append(GetFeaturesBody(row.Path).val,
                           <<(CHOOSE k \in 1..Len(list) : list[k] = row.Genre) - 1, 1>>)>>
                      \o rest
             ELSE rest

C6_DenseOneHotGivesGenre ==
    (pred_status # "idle" /\ classifier \in DenseCandidates /\ Decodes(midi_path)) =>
        \A k \in 0..(Len(label_list) - 1) :
            OneHotAt(pred_out, k) =>
                /\ pred_status = "returned"
                /\ prediction = label_list[k + 1]

\* C6 witness: the output [0, 1] gave the second genre of the vocabulary.
C6_Witness ==
    /\ pred_status = "returned"
    /\ classifier \in DenseCandidates
    /\ Decodes(midi_path)
    /\ pred_out = <<0, 1>>
    /\ prediction = label_list[2]

\* the number of 1-valued positions of a vector
Ones(v) == Cardinality({c \in 1..Len(v) : v[c] = 1})

\* C7: with a dense classifier, make_prediction fails and returns no genre
\* whenever the model's output has no 1 or more than one 1.
C7_MalformedOutputFails ==
    (/\ pred_status # "idle"
     /\ classifier \in DenseCandidates
     /\ Decodes(midi_path)
     /\ Ones(pred_out) # 1) =>
        /\ pred_status # "returned"
        /\ prediction = NoGenre

\* C8: with the scalar classifier (the SVC), make_prediction returns
\* label_list[k] for the class index k the model predicts.
C8_ScalarIndexGivesGenre ==
    (pred_status # "idle" /\ classifier = "clf_svm" /\ Decodes(midi_path)) =>
        /\ pred_status = "returned"
        /\ prediction = label_list[pred_out + 1]

\* C9: on a file whose extraction fails make_prediction ends in an error and
\* returns no genre.
C9_UndecodableFileIsAnError ==
    (pred_status # "idle" /\ ~Decodes(midi_path)) =>
        /\ pred_status # "returned"
        /\ prediction = NoGenre

\* C9 witness: a trained classifier, a file the codec warns about, an error.
C9_Witness ==
    /\ classifier \in Range(Candidates)
    /\ midi_path = "odd_track.mid"
    /\ features = None
    /\ pred_status = "ValueError"

\* C10: no exception leaves get_features; it gives None for every file on
\* which the codec raises or warns and a vector of 4 components for every other
\* file.
C10_GetFeaturesNoneOrVector ==
    /\ build_status \in {"idle", "running", "returned", "KeyError"}
    /\ (stage = "build" /\ (row_idx > 1 \/ build_status = "KeyError")) =>
           LET path == IF build_status = "KeyError" THEN path_df[row_idx].Path
                       ELSE path_df[row_idx - 1].Path
           IN  IF Decodes(path) THEN Len(features) = 4 ELSE features = None

\* C10 witness: get_features gave None for a file with a codec warning, and
\* extract_midi_features goes on.
C10_Witness ==
    /\ stage = "build"
    /\ build_status = "running"
    /\ row_idx > 1
    /\ path_df[row_idx - 1].Path = "odd_track.mid"
    /\ features = None

\* C11: the vocabulary built from a label table holds exactly the distinct
\* genres of the table, each once; label_dict gives them the indices
\* 0..n-1, one each; and label_dict[label_list[i]] = i for every index i.
C11_VocabularyIsBijective ==
    (stage = "vocab" /\ vocab_status = "built") =>
        LET n == Len(label_list)
        IN  /\ Range(label_list) = {genre_df[i] : i \in 1..Len(genre_df)}
            /\ \A i, j \in 1..n : label_list[i] = label_list[j] => i = j
            /\ n = Cardinality({genre_df[i] : i \in 1..Len(genre_df)})
            /\ DOMAIN label_dict = {genre_df[i] : i \in 1..Len(genre_df)}
            /\ {label_dict[g] : g \in DOMAIN label_dict} = 0..(n - 1)
            /\ \A g, h \in DOMAIN label_dict : label_dict[g] = label_dict[h] => g = h
            /\ \A i \in 0..(n - 1) : label_dict[label_list[i + 1]] = i

\* C11 witness: a table of four lines with a repeated genre gave a vocabulary
\* of three genres.
C11_Witness ==
    /\ stage = "vocab"
    /\ vocab_status = "built"
    /\ Len(genre_df) = 4
    /\ genre_df[1] = genre_df[3]
    /\ Len(label_list) = 3
    /\ label_dict[genre_df[4]] = 0

\* C12: one_hot of a sequence of valid class indices is one vector per index,
\* each as long as the vocabulary, with entries 0 or 1, and 1 exactly at the
\* place of its index.
C12_OneHotShape ==
    (stage = "train" /\ ci > 1) =>
        /\ Len(v_labels_hot) = Len(v_labels)
        /\ \A i \in 1..Len(v_labels) :
             /\ Len(v_labels_hot[i]) = Len(label_list)
             /\ \A c \in 0..(Len(label_list) - 1) :
                  /\ v_labels_hot[i][c + 1] \in {0, 1}
                  /\ v_labels_hot[i][c + 1] = 1 <=> c = v_labels[i]

\* C12 witness: two different class indices were encoded.
C12_Witness ==
    /\ stage = "train"
    /\ ci > 1
    /\ Len(v_labels) = 2
    /\ v_labels[1] # v_labels[2]
    /\ v_labels_hot[1] # v_labels_hot[2]

\* C13: extract_midi_features looks the class index up only for a row whose
\* extraction succeeded: when the run ends in KeyError, the row it ended on
\* is one get_features decoded with a genre outside the vocabulary, and a
\* row get_features gave None for never ends the run.
C13_LookupOnlyAfterSuccess ==
    (stage = "build" /\ build_status = "KeyError") =>
        /\ features # None
        /\ Decodes(path_df[row_idx].Path)
        /\ path_df[row_idx].Genre \notin DOMAIN label_dict

\* how often the row r occurs in the sequence of rows
Occurrences(rows, r) == Cardinality({i \in 1..Len(rows) : rows[i] = r})

\* the i-th feature vector and the i-th label of a slice make up its i-th row
Aligned(data, feats, labels) ==
    /\ Len(feats) = Len(data.rows)
    /\ Len(labels) = Len(data.rows)
    /\ \A i \in 1..Len(data.rows) : feats[i] \o <<<<labels[i], 1>>>> = data.rows[i]

\* C14: a run of the partition cell cuts the shuffled matrix into three
\* slices at disjoint positions that cover it, the slices together hold the
\* rows of the input matrix as often as the input does, and in each slice the
\* i-th label and the i-th feature vector come from the same row.
C14_PartitionKeepsRows ==
    [][(stage = "partition" /\ part_status = "idle" /\ part_status' # "idle") =>
        LET N == Len(labeled_features'.rows)
            shuffled == labeled_features'.rows
            train == 1..num_training'
            validation == (num_training' + 1)..num_validation'
            test == (num_validation' + 1)..N
            all == training_data'.rows \o validation_data'.rows \o test_data'.rows
        IN  /\ train \cap validation = {} /\ train \cap test = {}
            /\ validation \cap test = {}
            /\ train \cup validation \cup test = 1..N
            /\ Len(training_data'.rows) = Cardinality(train)
            /\ Len(validation_data'.rows) = Cardinality(validation)
            /\ Len(test_data'.rows) = Cardinality(test)
            /\ \A i \in train : training_data'.rows[i] = shuffled[i]
            /\ \A i \in validation :
                 validation_data'.rows[i - num_training'] = shuffled[i]
            /\ \A i \in test : test_data'.rows[i - num_validation'] = shuffled[i]
            /\ Len(all) = Len(labeled_features.rows)
            /\ \A r \in MatrixRows :
                 Occurrences(all, r) = Occurrences(labeled_features.rows, r)
            /\ part_status' = "done" =>
                 /\ Aligned(training_data', split'.training_features,
                            split'.training_labels)
                 /\ Aligned(validation_data', split'.validation_features,
                            split'.validation_labels)
                 /\ Aligned(test_data', split'.test_features, split'.test_labels)
      ]_vars

\* C14 witness: a matrix of five rows, not all alike, was partitioned into
\* three slices that each have a row, the training slice with two labels.
C14_Witness ==
    /\ stage = "partition"
    /\ part_status = "done"
    /\ Len(labeled_features.rows) = 5
    /\ Len(training_data.rows) = 3
    /\ Len(validation_data.rows) = 1
    /\ Len(test_data.rows) = 1
    /\ split.training_labels[1] # split.training_labels[2]
    /\ split.training_features[2] # split.training_features[3]
    /\ test_data.rows[1] # validation_data.rows[1]

\* the errors of a scoring that had no example to score
EmptyScoringErrors == {"ValueError", "ZeroDivisionError"}

\* C15: for a trained model, dense or scalar, and a test set with as many
\* labels as features, calculate_accuracy returns the count and the accuracy
\* the scoring loop of train_model computes from the same predictions and
\* labels, and fails only where that loop fails.
C15_SameScoringRule ==
    (/\ stage = "accuracy"
     /\ acc_status # "idle"
     /\ classifier # NoClf
     /\ Len(t_features) = Len(t_labels)) =>
        LET labels_hot == one_hot(t_labels, NumClasses(label_list))
            cnt == ScoreLoop(classifier, t_labels, labels_hot, acc_predictions, 1, 0)
            accuracy == Divide(cnt, Len(labels_hot))
        IN  IF acc_status = "returned"
            THEN /\ acc_count = cnt
                 /\ accuracy.exc = NoExc
                 /\ test_accuracy = accuracy.val
            ELSE /\ acc_status \in EmptyScoringErrors
                 /\ accuracy.exc # NoExc

\* C15 witness: calculate_accuracy scored a dense model on two examples, and
\* counted one of them although the prediction for the other has its 1 where
\* the label has.
C15_Witness ==
    /\ stage = "accuracy"
    /\ acc_status = "returned"
    /\ ~IsSVC(classifier)
    /\ classifier # NoClf
    /\ Len(t_features) = 2
    /\ Len(t_labels) = 2
    /\ test_accuracy = <<1, 2>>
    /\ \A i \in 1..2 : acc_predictions[i][t_labels[i] + 1] = 1

\* C16: scoring on no example is an error: train_model on an empty validation
\* set never returns, hands no model to classifier and records no accuracy,
\* and every iteration it starts ends in an exception; calculate_accuracy on
\* an empty test set ends in an exception and returns no accuracy.
C16_EmptyScoringIsAnError ==
    /\ (stage = "train" /\ Len(v_labels) = 0) =>
          /\ train_status \in {"running"} \cup EmptyScoringErrors
          /\ train_status = "running" => ci = 1
          /\ classifier = NoClf
          /\ accs = <<>>
    /\ (stage = "accuracy" /\ Len(t_features) = 0 /\ acc_status # "idle") =>
          /\ acc_status \in EmptyScoringErrors \cup {"AttributeError"}
          /\ acc_status = "AttributeError" <=> classifier = NoClf
          /\ test_accuracy = None

\* C16 witness: calculate_accuracy, given a trained model and an empty test
\* set, ended in the division by zero.
C16_Witness ==
    /\ stage = "accuracy"
    /\ classifier # NoClf
    /\ Len(t_features) = 0
    /\ Len(t_labels) = 0
    /\ acc_status = "ZeroDivisionError"

\* train_model, given an empty validation set, ended in the division by zero.
C16_TrainCase ==
    /\ stage = "train"
    /\ Len(v_labels) = 0
    /\ train_status = "ZeroDivisionError"

====
